---------------------------- MODULE Spec2Model ----------------------------
(***************************************************************************)
(* The Intel 8080 interpreter of src/src/processor/mod.rs as a state       *)
(* machine.  One step of the machine is one call of run_one_command: the   *)
(* opcode fetch and the whole handler it dispatches to.                    *)
(*                                                                         *)
(* Numbers are written in decimal; the hexadecimal value of the source is  *)
(* given in the comment beside each.                                       *)
(***************************************************************************)
EXTENDS Integers, Sequences, FiniteSets, TLC

VARIABLES
    a, b, c, d, e, h, l,      \* Processor.a .. Processor.l (u8)
    sp, pc,                   \* Processor.sp, Processor.pc (u16)
    conditions,               \* Processor.conditions (ConditionBits)
    halt,                     \* Processor.halt
    interrupt_enabled,        \* Processor.interrupt_enabled
    memory,                   \* Processor.memory, the non-zero bytes only
    panicked,                 \* the process was aborted by a Rust panic
    overflow_checks,          \* build profile: TRUE = overflow-checks on (debug)
    trace,                    \* the processor before each of the last two instructions
    fuel                      \* instructions the run may still execute

vars == <<a, b, c, d, e, h, l, sp, pc, conditions, halt, interrupt_enabled,
          memory, panicked, overflow_checks, trace, fuel>>

---------------------------------------------------------------------------
(* Bounds of the model *)

\* Instructions a run of the model executes at most.
MaxSteps == 3

---------------------------------------------------------------------------
(* Integer widths and bit operations *)

\* 0xffff: the length Vec::resize_with gives the memory (valid indices 0..0xfffe).
MemLen == 65535

\* 2^16: the modulus of u16 arithmetic.
U16 == 2 ^ 16

\* 2^8: the modulus of u8 arithmetic.
U8 == 2 ^ 8

Wrap16(v) == (v + U16) % U16

Wrap8(v) == (v + U8) % U8

\* x >> n on an unsigned integer
Shr(x, n) == x \div (2 ^ n)

\* bit n of x
Bit(x, n) == Shr(x, n) % 2

RECURSIVE bit_and(_, _, _)
\* Rust's `left & right` on the low n bits
bit_and(x, y, n) ==
    IF n = 0 THEN 0
    ELSE (x % 2) * (y % 2) + 2 * bit_and(x \div 2, y \div 2, n - 1)

RECURSIVE bit_or(_, _, _)
\* Rust's `left | right` on the low n bits
bit_or(x, y, n) ==
    IF n = 0 THEN 0
    ELSE (IF (x % 2) + (y % 2) > 0 THEN 1 ELSE 0)
         + 2 * bit_or(x \div 2, y \div 2, n - 1)

RECURSIVE bit_xor(_, _, _)
\* Rust's `left ^ right` on the low n bits
bit_xor(x, y, n) ==
    IF n = 0 THEN 0
    ELSE (((x % 2) + (y % 2)) % 2) + 2 * bit_xor(x \div 2, y \div 2, n - 1)

RECURSIVE hamming_weight(_, _)
\* the loop of Processor::parity: the number of 1 bits among the low `size` bits
hamming_weight(num, size) ==
    IF size = 0 THEN 0
    ELSE (num % 2) + hamming_weight(num \div 2, size - 1)

\* Processor::parity: TRUE when the low `size` bits hold an even number of ones
parity(num, size) == hamming_weight(num, size) % 2 = 0

---------------------------------------------------------------------------
(* The processor as a value.  Handlers are operators from processor to     *)
(* processor; a handler that panics returns the processor with panicked    *)
(* set, and nothing else of it is observable afterwards.                   *)

\* The processor the variables hold.
Self ==
    [a |-> a, b |-> b, c |-> c, d |-> d, e |-> e, h |-> h, l |-> l,
     sp |-> sp, pc |-> pc, conditions |-> conditions, halt |-> halt,
     interrupt_enabled |-> interrupt_enabled, memory |-> memory,
     panicked |-> panicked]

\* A Rust panic: index out of bounds, or arithmetic overflow with overflow checks.
Panic(s) == [s EXCEPT !.panicked = TRUE]

\* u16 arithmetic `x + k` / `x - k`: overflows when the exact result leaves 0..0xffff.
Overflows16(v) == v < 0 \/ v >= U16

\* memory[addr] as an rvalue; addr < MemLen
MemRead(s, addr) == IF addr \in DOMAIN s.memory THEN s.memory[addr] ELSE 0

\* memory[addr] = byte; addr < MemLen.  Zero bytes are not stored.
MemWrite(s, addr, byte) ==
    LET dom == IF byte = 0 THEN DOMAIN s.memory \ {addr}
               ELSE DOMAIN s.memory \cup {addr}
    IN [s EXCEPT !.memory =
            [x \in dom |-> IF x = addr THEN byte ELSE s.memory[x]]]

\* the bounds check of Vec indexing
InBounds(addr) == addr >= 0 /\ addr < MemLen

\* ConditionBits::set_flags
set_flags(byte) ==
    [carry     |-> Bit(byte, 0) # 0,
     parity    |-> Bit(byte, 2) # 0,
     aux_carry |-> Bit(byte, 4) # 0,
     zero      |-> Bit(byte, 6) # 0,
     sign      |-> Bit(byte, 7) # 0]

\* convert_to_flags without the auxiliary carry
convert_to_flags_no_aux(cond) ==
      (IF cond.carry THEN 1 ELSE 0)
    + (IF cond.parity THEN 4 ELSE 0)
    + (IF cond.zero THEN 64 ELSE 0)
    + (IF cond.sign THEN 128 ELSE 0)

\* ConditionBits::convert_to_flags
convert_to_flags(cond) ==
      (IF cond.carry THEN 1 ELSE 0)
    + (IF cond.parity THEN 4 ELSE 0)
    + (IF cond.aux_carry THEN 16 ELSE 0)
    + (IF cond.zero THEN 64 ELSE 0)
    + (IF cond.sign THEN 128 ELSE 0)

\* `self.conditions.carry as u16`
CarryBit(s) == IF s.conditions.carry THEN 1 ELSE 0

\* set_add_flags with the carry test `answer >= 0xff`
set_add_flags_carry_at_ff(s, answer) ==
    [s EXCEPT !.conditions =
        [@ EXCEPT !.sign = Bit(answer, 7) # 0,
                  !.zero = ((answer % U8) = 0),
                  !.parity = parity(answer % U8, 8),
                  !.carry = answer >= 255]]

\* Processor::set_add_flags
set_add_flags(s, answer) ==
    [s EXCEPT !.conditions =
        [@ EXCEPT !.sign = Bit(answer, 7) # 0,
                  !.zero = ((answer % U8) = 0),
                  !.parity = parity(answer % U8, 8),
                  !.carry = answer > 255]]

\* subtract_acc with the borrow test `subtrahend >= minuend`
subtract_acc_flags_borrow_at_equal(s, minuend, subtrahend) ==
    LET ret_diff == ((minuend + 256) - subtrahend) % U8
    IN [s EXCEPT !.conditions =
            [@ EXCEPT !.carry = subtrahend >= minuend,
                      !.sign = Bit(ret_diff, 7) # 0,
                      !.zero = (ret_diff = 0),
                      !.parity = parity(ret_diff, 8)]]

\* Processor::subtract_acc: the flags it leaves; the u16 `min - subtrahend`
\* panics below zero with overflow checks and wraps without them
subtract_acc_flags(s, minuend, subtrahend) ==
    LET min == minuend + 256
        difference == Wrap16(min - subtrahend)
        ret_diff == difference % U8
    IN IF Overflows16(min - subtrahend) /\ overflow_checks THEN Panic(s)
       ELSE [s EXCEPT !.conditions =
                [@ EXCEPT !.carry = subtrahend > minuend,
                          !.sign = Bit(ret_diff, 7) # 0,
                          !.zero = (ret_diff = 0),
                          !.parity = parity(ret_diff, 8)]]

\* Processor::subtract_acc: the byte it returns
subtract_acc_value(minuend, subtrahend) ==
    Wrap16((minuend + 256) - subtrahend) % U8

\* Processor::get_mem_addr
get_mem_addr(s) == s.h * 256 + s.l

\* Processor::split_bytes: <<high_byte, low_byte>>
split_bytes(val) == <<Shr(val, 8) % U8, val % U8>>

\* Processor::merge_bytes
merge_bytes(high_byte, low_byte) == high_byte * 256 + low_byte

---------------------------------------------------------------------------
(* Stack, register and fetch primitives.  An operator that also returns a  *)
(* value gives the record [st |-> processor, val |-> value].               *)

Out(st, val) == [st |-> st, val |-> val]

\* Processor::push_to_stack
push_to_stack(s, byte) ==
    IF s.panicked THEN s
    ELSE IF Overflows16(s.sp - 1) /\ overflow_checks THEN Panic(s)
    ELSE LET nsp == Wrap16(s.sp - 1)
         IN IF ~InBounds(nsp) THEN Panic(s)
            ELSE MemWrite([s EXCEPT !.sp = nsp], nsp, byte)

\* Processor::push_addr_to_stack
push_addr_to_stack(s, addr) ==
    LET bytes == split_bytes(addr)
    IN push_to_stack(push_to_stack(s, bytes[2]), bytes[1])

\* Processor::pop_from_stack
pop_from_stack(s) ==
    IF s.panicked THEN Out(s, 0)
    ELSE IF Overflows16(s.sp + 1) /\ overflow_checks THEN Out(Panic(s), 0)
    ELSE IF ~InBounds(s.sp) THEN Out(Panic(s), 0)
    ELSE Out([s EXCEPT !.sp = Wrap16(s.sp + 1)], MemRead(s, s.sp))

\* pop_addr_from_stack taking the low byte from the top of the stack
pop_addr_from_stack_low_first(s) ==
    LET low_byte == pop_from_stack(s)
        high_byte == pop_from_stack(low_byte.st)
    IN Out(high_byte.st, merge_bytes(high_byte.val, low_byte.val))

\* Processor::pop_addr_from_stack
pop_addr_from_stack(s) ==
    LET high_byte == pop_from_stack(s)
        low_byte == pop_from_stack(high_byte.st)
    IN Out(low_byte.st, merge_bytes(high_byte.val, low_byte.val))

\* Processor::get_register: does the reference it returns exist (arm 6 indexes memory)
register_in_bounds(s, reg) == reg # 6 \/ InBounds(get_mem_addr(s))

\* Processor::get_register, read through the reference
get_register(s, reg) ==
    CASE reg = 0 -> s.b
      [] reg = 1 -> s.c
      [] reg = 2 -> s.d
      [] reg = 3 -> s.e
      [] reg = 4 -> s.h
      [] reg = 5 -> s.l
      [] reg = 6 -> MemRead(s, get_mem_addr(s))
      [] OTHER -> s.a

\* Processor::set_register
set_register(s, reg, value) ==
    IF s.panicked THEN s
    ELSE IF ~register_in_bounds(s, reg) THEN Panic(s)
    ELSE CASE reg = 0 -> [s EXCEPT !.b = value]
           [] reg = 1 -> [s EXCEPT !.c = value]
           [] reg = 2 -> [s EXCEPT !.d = value]
           [] reg = 3 -> [s EXCEPT !.e = value]
           [] reg = 4 -> [s EXCEPT !.h = value]
           [] reg = 5 -> [s EXCEPT !.l = value]
           [] reg = 6 -> MemWrite(s, get_mem_addr(s), value)
           [] OTHER -> [s EXCEPT !.a = value]

\* Processor::get_register_pair_value
get_register_pair_value(s, reg_pair) ==
    CASE reg_pair = 0 -> s.b * 256 + s.c
      [] reg_pair = 1 -> s.d * 256 + s.e
      [] reg_pair = 2 -> s.h * 256 + s.l
      [] reg_pair = 3 -> s.sp
      [] OTHER -> 0

\* Processor::set_register_pair
set_register_pair(s, reg_pair, val) ==
    LET high_byte == Shr(val, 8) % U8
        low_byte == val % U8
    IN CASE reg_pair = 0 -> [s EXCEPT !.b = high_byte, !.c = low_byte]
         [] reg_pair = 1 -> [s EXCEPT !.d = high_byte, !.e = low_byte]
         [] reg_pair = 2 -> [s EXCEPT !.h = high_byte, !.l = low_byte]
         [] reg_pair = 3 -> [s EXCEPT !.sp = high_byte * 256 + low_byte]
         [] OTHER -> s

\* Processor::get_byte
get_byte(s) ==
    IF s.panicked THEN Out(s, 0)
    ELSE IF Overflows16(s.pc + 1) /\ overflow_checks THEN Out(Panic(s), 0)
    ELSE LET npc == Wrap16(s.pc + 1)
         IN IF Overflows16(npc - 1) /\ overflow_checks THEN Out(Panic(s), 0)
            ELSE IF ~InBounds(Wrap16(npc - 1)) THEN Out(Panic(s), 0)
            ELSE Out([s EXCEPT !.pc = npc], MemRead(s, Wrap16(npc - 1)))

\* Processor::get_two_bytes
get_two_bytes(s) ==
    LET low_byte == get_byte(s)
        high_byte == get_byte(low_byte.st)
    IN Out(high_byte.st, merge_bytes(high_byte.val, low_byte.val))

---------------------------------------------------------------------------
(* The instruction handlers.  Each takes the processor after the opcode    *)
(* fetch, and the opcode.                                                  *)

\* Processor::unimplemented_instruction: it prints memory[pc], an indexing
unimplemented_instruction(s) == IF ~InBounds(s.pc) THEN Panic(s) ELSE s

\* Processor::nop
nop(s) == s

\* Processor::lxi
lxi(s, opcode) ==
    LET reg_pair == Shr(opcode, 4)
        val == get_two_bytes(s)
    IN IF val.st.panicked THEN val.st
       ELSE set_register_pair(val.st, reg_pair, val.val)

\* Processor::lhld
lhld(s) ==
    LET addr == get_two_bytes(s)
    IN IF addr.st.panicked THEN addr.st
       ELSE IF ~InBounds(addr.val) \/ ~InBounds(addr.val + 1) THEN Panic(addr.st)
       ELSE [addr.st EXCEPT !.l = MemRead(addr.st, addr.val),
                            !.h = MemRead(addr.st, addr.val + 1)]

\* Processor::shld
shld(s) ==
    LET addr == get_two_bytes(s)
    IN IF addr.st.panicked THEN addr.st
       ELSE IF ~InBounds(addr.val) \/ ~InBounds(addr.val + 1) THEN Panic(addr.st)
       ELSE MemWrite(MemWrite(addr.st, addr.val, addr.st.l),
                     addr.val + 1, addr.st.h)

\* Processor::sta
sta(s) ==
    LET addr == get_two_bytes(s)
    IN IF addr.st.panicked THEN addr.st
       ELSE IF ~InBounds(addr.val) THEN Panic(addr.st)
       ELSE MemWrite(addr.st, addr.val, addr.st.a)

\* Processor::lda
lda(s) ==
    LET addr == get_two_bytes(s)
    IN IF addr.st.panicked THEN addr.st
       ELSE IF ~InBounds(addr.val) THEN Panic(addr.st)
       ELSE [addr.st EXCEPT !.a = MemRead(addr.st, addr.val)]

\* Processor::stax
stax(s, opcode) ==
    LET reg_pair == Shr(opcode, 4)
        addr == get_register_pair_value(s, reg_pair)
    IN IF ~InBounds(addr) THEN Panic(s) ELSE MemWrite(s, addr, s.a)

\* Processor::ldax
ldax(s, opcode) ==
    LET reg_pair == Shr(opcode, 4)
        addr == get_register_pair_value(s, reg_pair)
    IN IF ~InBounds(addr) THEN Panic(s) ELSE [s EXCEPT !.a = MemRead(s, addr)]

\* Processor::mvi
mvi(s, opcode) ==
    LET reg == Shr(opcode, 3)
        byte == get_byte(s)
    IN set_register(byte.st, reg, byte.val)

\* mov with the two register codes exchanged: it copies reg_1 into reg_2
mov_reversed(s, opcode) ==
    LET reg_1 == Shr((opcode * 4) % U8, 5)
        reg_2 == opcode % 8
    IN IF ~register_in_bounds(s, reg_1) THEN Panic(s)
       ELSE set_register(s, reg_2, get_register(s, reg_1))

\* Processor::mov
mov(s, opcode) ==
    LET reg_1 == Shr((opcode * 4) % U8, 5)
        reg_2 == opcode % 8
    IN IF ~register_in_bounds(s, reg_2) THEN Panic(s)
       ELSE set_register(s, reg_1, get_register(s, reg_2))

\* Processor::halt
halt_(s) == [s EXCEPT !.halt = TRUE]

\* Processor::inr
inr(s, opcode) ==
    LET reg_code == Shr(opcode, 3)
    IN IF ~register_in_bounds(s, reg_code) THEN Panic(s)
       ELSE LET cur_val == get_register(s, reg_code) + 1
                s1 == set_register(s, reg_code, cur_val % U8)
            IN [s1 EXCEPT !.conditions =
                   [@ EXCEPT !.sign = Shr(cur_val, 7) # 0,
                             !.zero = (cur_val = 0),
                             !.parity = parity(cur_val, 8)]]

\* Processor::inx
inx(s, opcode) ==
    LET reg_pair == Shr(opcode, 4)
        sum == get_register_pair_value(s, reg_pair) + 1
    IN IF Overflows16(sum) /\ overflow_checks THEN Panic(s)
       ELSE LET pair_val == Wrap16(sum)
                s1 == set_register_pair(s, reg_pair, pair_val)
            IN [s1 EXCEPT !.conditions =
                   [@ EXCEPT !.sign = Shr(pair_val, 15) # 0,
                             !.zero = (pair_val = 0),
                             !.parity = parity(pair_val, 16)]]

\* dcr that stops at zero instead of wrapping to 0xff
dcr_saturating(s, opcode) ==
    LET reg_code == Shr(opcode, 3)
    IN IF ~register_in_bounds(s, reg_code) THEN Panic(s)
       ELSE LET register == get_register(s, reg_code)
                cur_val == IF register > 0 THEN register - 1 ELSE 0
                s1 == set_register(s, reg_code, cur_val % U8)
            IN [s1 EXCEPT !.conditions =
                   [@ EXCEPT !.sign = Shr(cur_val, 7) # 0,
                             !.zero = (cur_val = 0),
                             !.parity = parity(cur_val, 8)]]

\* Processor::dcr
dcr(s, opcode) ==
    LET reg_code == Shr(opcode, 3)
    IN IF ~register_in_bounds(s, reg_code) THEN Panic(s)
       ELSE LET register == get_register(s, reg_code)
                cur_val == IF register > 0 THEN register - 1 ELSE 255
                s1 == set_register(s, reg_code, cur_val % U8)
            IN [s1 EXCEPT !.conditions =
                   [@ EXCEPT !.sign = Shr(cur_val, 7) # 0,
                             !.zero = (cur_val = 0),
                             !.parity = parity(cur_val, 8)]]

\* Processor::dcx
dcx(s, opcode) ==
    LET reg_pair == bit_and(Shr(opcode, 4), 12, 8)
        diff == get_register_pair_value(s, reg_pair) - 1
    IN IF Overflows16(diff) /\ overflow_checks THEN Panic(s)
       ELSE LET pair_val == Wrap16(diff)
                s1 == set_register_pair(s, reg_pair, pair_val)
            IN [s1 EXCEPT !.conditions =
                   [@ EXCEPT !.sign = Shr(pair_val, 15) # 0,
                             !.zero = (pair_val = 0),
                             !.parity = parity(pair_val, 16)]]

\* Processor::add
add(s, opcode) ==
    LET reg_num == opcode % 8
    IN IF ~register_in_bounds(s, reg_num) THEN Panic(s)
       ELSE LET answer == s.a + get_register(s, reg_num)
            IN [set_add_flags(s, answer) EXCEPT !.a = Shr((answer * 256) % U16, 8)]

\* Processor::adi
adi(s) ==
    LET immediate == get_byte(s)
        answer == immediate.st.a + immediate.val
    IN IF immediate.st.panicked THEN immediate.st
       ELSE [set_add_flags(immediate.st, answer)
                EXCEPT !.a = Shr((answer * 256) % U16, 8)]

\* Processor::adc
adc(s, opcode) ==
    LET reg_num == opcode % 8
    IN IF ~register_in_bounds(s, reg_num) THEN Panic(s)
       ELSE LET answer == s.a + get_register(s, reg_num) + CarryBit(s)
            IN [set_add_flags(s, answer) EXCEPT !.a = answer % U8]

\* Processor::aci
aci(s) ==
    LET imm == get_byte(s)
        answer == imm.st.a + imm.val + CarryBit(imm.st)
    IN IF imm.st.panicked THEN imm.st
       ELSE [set_add_flags(imm.st, answer)
                EXCEPT !.a = Shr((answer * 256) % U16, 8)]

\* Processor::sub
sub(s, opcode) ==
    LET reg_num == opcode % 8
        minuend == s.a
    IN IF ~register_in_bounds(s, reg_num) THEN Panic(s)
       ELSE LET subtrahend == get_register(s, reg_num)
            IN [subtract_acc_flags(s, minuend, subtrahend)
                   EXCEPT !.a = subtract_acc_value(minuend, subtrahend)]

\* Processor::sbb
sbb(s, opcode) ==
    LET reg_num == opcode % 8
        minuend == s.a
    IN IF ~register_in_bounds(s, reg_num) THEN Panic(s)
       ELSE LET subtrahend == get_register(s, reg_num) + CarryBit(s)
            IN [subtract_acc_flags(s, minuend, subtrahend)
                   EXCEPT !.a = subtract_acc_value(minuend, subtrahend)]

\* Processor::sui
sui(s) ==
    LET minuend == s.a
        byte == get_byte(s)
        subtrahend == byte.val
    IN IF byte.st.panicked THEN byte.st
       ELSE [subtract_acc_flags(byte.st, minuend, subtrahend)
                EXCEPT !.a = subtract_acc_value(minuend, subtrahend)]

\* Processor::sbi
sbi(s) ==
    LET minuend == s.a
        byte == get_byte(s)
        subtrahend == byte.val + CarryBit(byte.st)
    IN IF byte.st.panicked THEN byte.st
       ELSE [subtract_acc_flags(byte.st, minuend, subtrahend)
                EXCEPT !.a = subtract_acc_value(minuend, subtrahend)]

\* Processor::cpi
cpi(s) ==
    LET minuend == s.a
        byte == get_byte(s)
        subtrahend == byte.val
    IN IF byte.st.panicked THEN byte.st
       ELSE subtract_acc_flags(byte.st, minuend, subtrahend)

\* cmp storing the difference in A, as sub does
cmp_storing(s, opcode) ==
    LET reg_num == opcode % 8
        minuend == s.a
    IN IF ~register_in_bounds(s, reg_num) THEN Panic(s)
       ELSE LET subtrahend == get_register(s, reg_num)
            IN [subtract_acc_flags(s, minuend, subtrahend)
                   EXCEPT !.a = subtract_acc_value(minuend, subtrahend)]

\* Processor::cmp
cmp(s, opcode) ==
    LET reg_num == opcode % 8
        minuend == s.a
    IN IF ~register_in_bounds(s, reg_num) THEN Panic(s)
       ELSE subtract_acc_flags(s, minuend, get_register(s, reg_num))

\* Processor::dad
dad(s, opcode) ==
    LET reg_pair == get_register_pair_value(s, Shr(opcode, 4))
        hl_val == get_register_pair_value(s, 2)
        sum == reg_pair + hl_val
        s1 == [s EXCEPT !.conditions.carry = Shr(sum, 16) > 0]
    IN set_register_pair(s1, 2, sum % U16)

\* Processor::logical_op, with f(left, right) already applied: value = f(left, right)
logical_op(s, value) ==
    [s EXCEPT !.a = value,
              !.conditions =
                  [@ EXCEPT !.carry = FALSE,
                            !.sign = Bit(value, 7) # 0,
                            !.zero = (value = 0),
                            !.parity = parity(value, 8)]]

\* Processor::ana
ana(s, opcode) ==
    IF ~register_in_bounds(s, opcode % 8) THEN Panic(s)
    ELSE logical_op(s, bit_and(s.a, get_register(s, opcode % 8), 8))

\* Processor::xra
xra(s, opcode) ==
    IF ~register_in_bounds(s, opcode % 8) THEN Panic(s)
    ELSE logical_op(s, bit_xor(s.a, get_register(s, opcode % 8), 8))

\* Processor::ora
ora(s, opcode) ==
    IF ~register_in_bounds(s, opcode % 8) THEN Panic(s)
    ELSE logical_op(s, bit_or(s.a, get_register(s, opcode % 8), 8))

\* Processor::ani
ani(s) ==
    LET right == get_byte(s)
    IN IF right.st.panicked THEN right.st
       ELSE logical_op(right.st, bit_and(right.st.a, right.val, 8))

\* Processor::ori
ori(s) ==
    LET right == get_byte(s)
    IN IF right.st.panicked THEN right.st
       ELSE logical_op(right.st, bit_or(right.st.a, right.val, 8))

\* Processor::xri
xri(s) ==
    LET right == get_byte(s)
    IN IF right.st.panicked THEN right.st
       ELSE logical_op(right.st, bit_xor(right.st.a, right.val, 8))

\* Processor::xchg
xchg(s) ==
    LET de == get_register_pair_value(s, 1)
        hl == get_register_pair_value(s, 2)
    IN set_register_pair(set_register_pair(s, 1, hl), 2, de)

\* Processor::xthl
xthl(s) ==
    LET hl == get_register_pair_value(s, 2)
        mem == pop_addr_from_stack(s)
    IN IF mem.st.panicked THEN mem.st
       ELSE push_addr_to_stack(set_register_pair(mem.st, 2, mem.val), hl)

\* Processor::pchl
pchl(s) == [s EXCEPT !.pc = s.h * 256 + s.l]

\* Processor::jmp
jmp(s) ==
    IF s.panicked THEN s
    ELSE IF ~InBounds(s.pc) \/ ~InBounds(s.pc + 1) THEN Panic(s)
    ELSE LET low_byte == MemRead(s, s.pc)
             high_byte == MemRead(s, s.pc + 1) * 256
         IN [s EXCEPT !.pc = high_byte + low_byte]

\* Processor::rotate_acc
rotate_acc(s, opcode) ==
    LET high_bit == Shr(s.a, 7)
        low_bit == bit_and(s.a, 254, 8)
        instr == Shr(opcode, 3)
        acc == s.a
        cy == CarryBit(s)
    IN CASE instr = 0 ->
              [s EXCEPT !.conditions.carry = (high_bit = 1),
                        !.a = ((acc * 2) % U8) + high_bit]
         [] instr = 1 ->
              [s EXCEPT !.conditions.carry = (low_bit = 1),
                        !.a = Shr(acc, 1) + ((low_bit * 128) % U8)]
         [] instr = 2 ->
              [s EXCEPT !.conditions.carry = (high_bit = 1),
                        !.a = ((acc * 2) % U8) + cy]
         [] OTHER ->
              [s EXCEPT !.conditions.carry = (low_bit = 1),
                        !.a = Shr(acc, 1) + ((cy * 128) % U8)]

\* Processor::match_conds
match_conds(s, opcode) ==
    LET condition == Shr(opcode, 3) % 8
    IN CASE condition = 0 -> ~s.conditions.zero
         [] condition = 1 -> s.conditions.zero
         [] condition = 2 -> ~s.conditions.carry
         [] condition = 3 -> s.conditions.carry
         [] condition = 4 -> ~s.conditions.parity
         [] condition = 5 -> s.conditions.parity
         [] condition = 6 -> ~s.conditions.sign
         [] condition = 7 -> s.conditions.sign
         [] OTHER -> FALSE

\* Processor::call
call(s) ==
    IF Overflows16(s.pc + 2) /\ overflow_checks THEN Panic(s)
    ELSE jmp(push_addr_to_stack(s, Wrap16(s.pc + 2)))

\* Processor::ret
ret(s) ==
    LET addr == pop_addr_from_stack(s)
    IN IF addr.st.panicked THEN addr.st ELSE [addr.st EXCEPT !.pc = addr.val]

\* pop, decoding the pair as push does: `(opcode >> 4) & 0b11`
pop_masked(s, opcode) ==
    LET reg_pair == Shr(opcode, 4) % 4
        low_byte == pop_from_stack(s)
        high_byte == pop_from_stack(low_byte.st)
    IN IF high_byte.st.panicked THEN high_byte.st
       ELSE IF reg_pair < 3
       THEN set_register_pair(high_byte.st, reg_pair,
                              merge_bytes(high_byte.val, low_byte.val))
       ELSE [high_byte.st EXCEPT !.a = high_byte.val,
                                 !.conditions = set_flags(low_byte.val)]

\* Processor::pop
pop(s, opcode) ==
    LET reg_pair == Shr(opcode, 4)
        low_byte == pop_from_stack(s)
        high_byte == pop_from_stack(low_byte.st)
    IN IF high_byte.st.panicked THEN high_byte.st
       ELSE IF reg_pair < 3
       THEN set_register_pair(high_byte.st, reg_pair,
                              merge_bytes(high_byte.val, low_byte.val))
       ELSE [high_byte.st EXCEPT !.a = high_byte.val,
                                 !.conditions = set_flags(low_byte.val)]

\* Processor::push
push(s, opcode) ==
    LET reg_pair == Shr(opcode, 4) % 4
    IN IF reg_pair < 3
       THEN push_addr_to_stack(s, get_register_pair_value(s, reg_pair))
       ELSE push_to_stack(push_to_stack(s, s.a), convert_to_flags(s.conditions))

\* Jccc that leaves PC on the operand when the condition does not hold
jccc_no_skip(s, opcode) == IF match_conds(s, opcode) THEN jmp(s) ELSE s

\* run_one_command, arms 0xc2 .. 0xfa: Jccc
jccc(s, opcode) ==
    IF match_conds(s, opcode) THEN jmp(s)
    ELSE IF Overflows16(s.pc + 2) /\ overflow_checks THEN Panic(s)
    ELSE [s EXCEPT !.pc = Wrap16(s.pc + 2)]

\* run_one_command, arms 0xc4 .. 0xfc: Cccc
cccc(s, opcode) ==
    IF match_conds(s, opcode) THEN call(s)
    ELSE IF Overflows16(s.pc + 2) /\ overflow_checks THEN Panic(s)
    ELSE [s EXCEPT !.pc = Wrap16(s.pc + 2)]

\* Rccc that returns whether or not the condition holds
rccc_unconditional(s, opcode) == ret(s)

\* run_one_command, arms 0xc0 .. 0xf8: Rccc
rccc(s, opcode) == IF match_conds(s, opcode) THEN ret(s) ELSE s

---------------------------------------------------------------------------
(* run_program's loop: `while !self.halt { self.run_one_command(); }`.     *)
(* One action per arm of run_one_command's match.                          *)

\* The loop condition of run_program, and the model's bound on the run.
Running == ~halt /\ ~panicked /\ fuel > 0

\* run_one_command: `let opcode: u8 = self.get_byte();`  An action takes it once,
\* as `f`: f.st is the processor after the fetch, f.val the opcode.
Fetched == get_byte(Self)

\* memory[pc], the byte get_byte returns when pc indexes the memory.
Opcode == IF pc \in DOMAIN memory THEN memory[pc] ELSE 0

\* The opcode was fetched (get_byte did not panic) and is one of `ops`.
Decoded(ops) == Running /\ InBounds(pc) /\ Opcode \in ops

\* The processor before each of the last two instructions, the newest last.
Remember == IF trace = <<>> THEN <<Self>> ELSE <<trace[Len(trace)], Self>>

\* The instruction ends with processor s.  A panic aborts the process: the
\* variables keep what they held before the instruction, and panicked is set.
Commit(s) ==
    \E t \in {IF s.panicked THEN Panic(Self) ELSE s} :
       /\ a' = t.a /\ b' = t.b /\ c' = t.c /\ d' = t.d /\ e' = t.e
       /\ h' = t.h /\ l' = t.l /\ sp' = t.sp /\ pc' = t.pc
       /\ conditions' = t.conditions
       /\ halt' = t.halt
       /\ interrupt_enabled' = t.interrupt_enabled
       /\ memory' = t.memory
       /\ panicked' = t.panicked
       /\ overflow_checks' = overflow_checks
       /\ trace' = Remember
       /\ fuel' = fuel - 1

\* get_byte panics on the opcode fetch: pc = 0xffff is no index of the memory.
FetchPanic == Running /\ \E f \in {Fetched} : f.st.panicked /\ Commit(f.st)

\* arm 0x00 | 0x27  (0x00 NOP and 0x27 DAA)
Nop == Decoded({0, 39}) /\ \E f \in {Fetched} : Commit(nop(f.st))

\* arm 0x01 | 0x11 | 0x21 | 0x31
Lxi == Decoded({1, 17, 33, 49}) /\ \E f \in {Fetched} : Commit(lxi(f.st, f.val))

\* arm 0x02 | 0x12
Stax == Decoded({2, 18}) /\ \E f \in {Fetched} : Commit(stax(f.st, f.val))

\* arm 0x03 | 0x13 | 0x23 | 0x33
Inx == Decoded({3, 19, 35, 51}) /\ \E f \in {Fetched} : Commit(inx(f.st, f.val))

\* arm 0x04 | 0x0c | 0x14 | 0x1c | 0x24 | 0x2c | 0x34 | 0x3c
Inr ==
    /\ Decoded({4, 12, 20, 28, 36, 44, 52, 60})
    /\ \E f \in {Fetched} : Commit(inr(f.st, f.val))

\* arm 0x05 | 0x0d | 0x15 | 0x1d | 0x25 | 0x2d | 0x35 | 0x3d
Dcr ==
    /\ Decoded({5, 13, 21, 29, 37, 45, 53, 61})
    /\ \E f \in {Fetched} : Commit(dcr(f.st, f.val))

\* arm 0x06 | 0x0e | 0x16 | 0x1e | 0x26 | 0x2e | 0x36 | 0x3e
Mvi ==
    /\ Decoded({6, 14, 22, 30, 38, 46, 54, 62})
    /\ \E f \in {Fetched} : Commit(mvi(f.st, f.val))

\* arm 0x07 | 0x0f | 0x17 | 0x1f
RotateAcc ==
    /\ Decoded({7, 15, 23, 31})
    /\ \E f \in {Fetched} : Commit(rotate_acc(f.st, f.val))

\* arm 0x09 | 0x19 | 0x29 | 0x39
Dad == Decoded({9, 25, 41, 57}) /\ \E f \in {Fetched} : Commit(dad(f.st, f.val))

\* arm 0x0a | 0x1a
Ldax == Decoded({10, 26}) /\ \E f \in {Fetched} : Commit(ldax(f.st, f.val))

\* arm 0x0b | 0x1b | 0x2b | 0x3b
Dcx == Decoded({11, 27, 43, 59}) /\ \E f \in {Fetched} : Commit(dcx(f.st, f.val))

\* arm 0x22
Shld == Decoded({34}) /\ \E f \in {Fetched} : Commit(shld(f.st))

\* arm 0x2a
Lhld == Decoded({42}) /\ \E f \in {Fetched} : Commit(lhld(f.st))

\* arm 0x2f
Cma == Decoded({47}) /\ \E f \in {Fetched} : Commit([f.st EXCEPT !.a = 255 - @])

\* arm 0x32
Sta == Decoded({50}) /\ \E f \in {Fetched} : Commit(sta(f.st))

\* arm 0x37
Stc ==
    /\ Decoded({55})
    /\ \E f \in {Fetched} : Commit([f.st EXCEPT !.conditions.carry = TRUE])

\* arm 0x3a
Lda == Decoded({58}) /\ \E f \in {Fetched} : Commit(lda(f.st))

\* arm 0x3f
Cmc ==
    /\ Decoded({63})
    /\ \E f \in {Fetched} : Commit([f.st EXCEPT !.conditions.carry = ~@])

\* arm 0x40..=0x75 | 0x77..=0x7f
Mov ==
    /\ Decoded((64 .. 117) \cup (119 .. 127))
    /\ \E f \in {Fetched} : Commit(mov(f.st, f.val))

\* arm 0x76
Halt == Decoded({118}) /\ \E f \in {Fetched} : Commit(halt_(f.st))

\* arm 0x80 | 0x81 | 0x82 | 0x83 | 0x84 | 0x85 | 0x86 | 0x87
Add == Decoded(128 .. 135) /\ \E f \in {Fetched} : Commit(add(f.st, f.val))

\* arm 0x88 | 0x89 | 0x8a | 0x8b | 0x8c | 0x8d | 0x8e | 0x8f
Adc == Decoded(136 .. 143) /\ \E f \in {Fetched} : Commit(adc(f.st, f.val))

\* arm 0x90 | 0x91 | 0x92 | 0x93 | 0x94 | 0x95 | 0x96 | 0x97
Sub == Decoded(144 .. 151) /\ \E f \in {Fetched} : Commit(sub(f.st, f.val))

\* arm 0x98 | 0x99 | 0x9a | 0x9b | 0x9c | 0x9d | 0x9e | 0x9f
Sbb == Decoded(152 .. 159) /\ \E f \in {Fetched} : Commit(sbb(f.st, f.val))

\* arm 0xa0 | 0xa1 | 0xa2 | 0xa3 | 0xa4 | 0xa5 | 0xa6 | 0xa7
Ana == Decoded(160 .. 167) /\ \E f \in {Fetched} : Commit(ana(f.st, f.val))

\* arm 0xa8 | 0xa9 | 0xaa | 0xab | 0xac | 0xad | 0xae | 0xaf
Xra == Decoded(168 .. 175) /\ \E f \in {Fetched} : Commit(xra(f.st, f.val))

\* arm 0xb0 | 0xb1 | 0xb2 | 0xb3 | 0xb4 | 0xb5 | 0xb6 | 0xb7
Ora == Decoded(176 .. 183) /\ \E f \in {Fetched} : Commit(ora(f.st, f.val))

\* arm 0xb8 | 0xb9 | 0xba | 0xbb | 0xbc | 0xbd | 0xbe | 0xbf
Cmp == Decoded(184 .. 191) /\ \E f \in {Fetched} : Commit(cmp(f.st, f.val))

\* arm 0xc2 | 0xca | 0xd2 | 0xda | 0xe2 | 0xea | 0xf2 | 0xfa
JcccOps == {194, 202, 210, 218, 226, 234, 242, 250}

Jccc == Decoded(JcccOps) /\ \E f \in {Fetched} : Commit(jccc(f.st, f.val))

\* arm 0xc3
Jmp == Decoded({195}) /\ \E f \in {Fetched} : Commit(jmp(f.st))

\* arm 0xc4 | 0xcc | 0xd4 | 0xdc | 0xe4 | 0xec | 0xf4 | 0xfc
CcccOps == {196, 204, 212, 220, 228, 236, 244, 252}

Cccc == Decoded(CcccOps) /\ \E f \in {Fetched} : Commit(cccc(f.st, f.val))

\* arm 0xc0 | 0xc8 | 0xd0 | 0xd8 | 0xe0 | 0xe8 | 0xf0 | 0xf8
RcccOps == {192, 200, 208, 216, 224, 232, 240, 248}

Rccc == Decoded(RcccOps) /\ \E f \in {Fetched} : Commit(rccc(f.st, f.val))

\* arm 0xc1 | 0xd1 | 0xe1 | 0xf1
PopOps == {193, 209, 225, 241}

Pop == Decoded(PopOps) /\ \E f \in {Fetched} : Commit(pop(f.st, f.val))

\* arm 0xc5 | 0xd5 | 0xe5 | 0xf5
Push == Decoded({197, 213, 229, 245}) /\ \E f \in {Fetched} : Commit(push(f.st, f.val))

\* arm 0xc6
Adi == Decoded({198}) /\ \E f \in {Fetched} : Commit(adi(f.st))

\* arm 0xc7 | 0xcf | 0xd7 | 0xdf | 0xe7 | 0xef | 0xf7 | 0xff  (TODO: RST)
Rst ==
    /\ Decoded({199, 207, 215, 223, 231, 239, 247, 255})
    /\ \E f \in {Fetched} : Commit(unimplemented_instruction(f.st))

\* arm 0xc9
Ret == Decoded({201}) /\ \E f \in {Fetched} : Commit(ret(f.st))

\* arm 0xcd
Call == Decoded({205}) /\ \E f \in {Fetched} : Commit(call(f.st))

\* arm 0xce
Aci == Decoded({206}) /\ \E f \in {Fetched} : Commit(aci(f.st))

\* arm 0xd3  (TODO: OUT)
OutPort ==
    /\ Decoded({211})
    /\ \E f \in {Fetched} : Commit(unimplemented_instruction(f.st))

\* arm 0xd6
Sui == Decoded({214}) /\ \E f \in {Fetched} : Commit(sui(f.st))

\* arm 0xdb  (TODO: IN)
InPort == Decoded({219}) /\ \E f \in {Fetched} : Commit(unimplemented_instruction(f.st))

\* arm 0xde
Sbi == Decoded({222}) /\ \E f \in {Fetched} : Commit(sbi(f.st))

\* arm 0xe3
Xthl == Decoded({227}) /\ \E f \in {Fetched} : Commit(xthl(f.st))

\* arm 0xe6
Ani == Decoded({230}) /\ \E f \in {Fetched} : Commit(ani(f.st))

\* arm 0xe9
Pchl == Decoded({233}) /\ \E f \in {Fetched} : Commit(pchl(f.st))

\* arm 0xeb
Xchg == Decoded({235}) /\ \E f \in {Fetched} : Commit(xchg(f.st))

\* arm 0xee
Xri == Decoded({238}) /\ \E f \in {Fetched} : Commit(xri(f.st))

\* arm 0xf3
Di ==
    /\ Decoded({243})
    /\ \E f \in {Fetched} : Commit([f.st EXCEPT !.interrupt_enabled = FALSE])

\* arm 0xf6
Ori == Decoded({246}) /\ \E f \in {Fetched} : Commit(ori(f.st))

\* arm 0xf9
Sphl ==
    /\ Decoded({249})
    /\ \E f \in {Fetched} :
         Commit([f.st EXCEPT !.sp = get_register_pair_value(f.st, 2)])

\* arm 0xfb
Ei ==
    /\ Decoded({251})
    /\ \E f \in {Fetched} : Commit([f.st EXCEPT !.interrupt_enabled = TRUE])

\* arm 0xfe
Cpi == Decoded({254}) /\ \E f \in {Fetched} : Commit(cpi(f.st))

\* arm `_`: the bytes no other arm names
\* (0x08 0x10 0x18 0x20 0x28 0x30 0x38 0xcb 0xd9 0xdd 0xed 0xfd)
Unimplemented ==
    /\ Decoded({8, 16, 24, 32, 40, 48, 56, 203, 217, 221, 237, 253})
    /\ \E f \in {Fetched} : Commit(unimplemented_instruction(f.st))

Next ==
    \/ FetchPanic
    \/ Nop
    \/ Lxi
    \/ Stax
    \/ Inx
    \/ Inr
    \/ Dcr
    \/ Mvi
    \/ RotateAcc
    \/ Dad
    \/ Ldax
    \/ Dcx
    \/ Shld
    \/ Lhld
    \/ Cma
    \/ Sta
    \/ Stc
    \/ Lda
    \/ Cmc
    \/ Mov
    \/ Halt
    \/ Add
    \/ Adc
    \/ Sub
    \/ Sbb
    \/ Ana
    \/ Xra
    \/ Ora
    \/ Cmp
    \/ Jccc
    \/ Jmp
    \/ Cccc
    \/ Rccc
    \/ Pop
    \/ Push
    \/ Adi
    \/ Rst
    \/ Ret
    \/ Call
    \/ Aci
    \/ OutPort
    \/ Sui
    \/ InPort
    \/ Sbi
    \/ Xthl
    \/ Ani
    \/ Pchl
    \/ Xchg
    \/ Xri
    \/ Di
    \/ Ori
    \/ Sphl
    \/ Ei
    \/ Cpi
    \/ Unimplemented

---------------------------------------------------------------------------
(* Initial states.  run_program starts from make_processor() with the      *)
(* image at address 0.  The model starts runs in the middle of a program:  *)
(* the registers, flags, SP and PC are drawn from sets, since an earlier   *)
(* part of an image establishes any of their values (LXI and MVI the       *)
(* registers and SP, POP the accumulator and flags, JMP or PCHL the PC),   *)
(* and the memory holds the instructions that come next.                   *)

\* make_processor: Default::default() of every field
make_processor ==
    [a |-> 0, b |-> 0, c |-> 0, d |-> 0, e |-> 0, h |-> 0, l |-> 0,
     sp |-> 0, pc |-> 0,
     conditions |-> [carry |-> FALSE, aux_carry |-> FALSE, sign |-> FALSE,
                     zero |-> FALSE, parity |-> FALSE],
     halt |-> FALSE, interrupt_enabled |-> FALSE,
     memory |-> << >>, panicked |-> FALSE]

\* Processor::initialize_memory: the bytes of the image, cut to 0xffff bytes; the
\* image is given as a sequence of <<address, bytes>> pieces, a later piece
\* overwriting an earlier one.
initialize_memory(pieces) ==
    LET covers(i, x) == x - pieces[i][1] + 1 \in 1 .. Len(pieces[i][2])
        addrs == UNION {{pieces[i][1] + j - 1 : j \in 1 .. Len(pieces[i][2])}
                        : i \in 1 .. Len(pieces)}
        last(x) == CHOOSE i \in 1 .. Len(pieces) :
                       /\ covers(i, x)
                       /\ \A k \in 1 .. Len(pieces) : covers(k, x) => k <= i
        byte(x) == pieces[last(x)][2][x - pieces[last(x)][1] + 1]
    IN [x \in {y \in addrs : InBounds(y) /\ byte(y) # 0} |-> byte(x)]

\* Every value of ConditionBits.
AllConditions ==
    [carry : BOOLEAN, aux_carry : BOOLEAN, sign : BOOLEAN, zero : BOOLEAN,
     parity : BOOLEAN]

\* ConditionBits with every flag clear, and with every flag set.
TwoConditions ==
    {cb \in AllConditions :
        \A f \in {"aux_carry", "sign", "zero", "parity"} : cb[f] = cb.carry}

\* Byte values at the edges of the 8-bit range: 0x00 0x01 0x7f 0x80 0xff
EdgeBytes == {0, 1, 127, 128, 255}

\* A processor in mid-run with distinct values in all registers:
\* A=0x3c B=0x12 C=0x34 D=0x56 E=0x78 H=0x02 L=0x10 SP=0x0300
MidRun ==
    [make_processor EXCEPT !.a = 60, !.b = 18, !.c = 52, !.d = 86, !.e = 120,
                           !.h = 2, !.l = 16, !.sp = 768]

\* A start of the model: the processor s, a run of at most n instructions, in
\* either build profile.
StartAt(s, n) ==
    \E t \in {s}, oc \in BOOLEAN :
        /\ a = t.a /\ b = t.b /\ c = t.c /\ d = t.d
        /\ e = t.e /\ h = t.h /\ l = t.l
        /\ sp = t.sp /\ pc = t.pc
        /\ conditions = t.conditions
        /\ halt = t.halt
        /\ interrupt_enabled = t.interrupt_enabled
        /\ memory = t.memory
        /\ panicked = FALSE
        /\ overflow_checks = oc
        /\ trace = << >>
        /\ fuel = n

\* One instruction of every opcode, followed by the bytes 0x05 0x02 (its operand,
\* or DCR B and STAX B), in the middle of the memory (0x0100) and at its end
\* (0xfffe); the word 0xbbaa on the stack.
CoverStarts ==
    \E op \in 0 .. 255, p \in {256, 65534}, cb \in TwoConditions :
      StartAt([MidRun EXCEPT !.pc = p, !.conditions = cb,
                          !.memory = initialize_memory(
                              << <<768, <<170, 187>> >>, <<p, <<op, 5, 2>> >> >>)],
           MaxSteps)

\* PUSH rp or PUSH PSW at 0x0100, then POP of the same pair, RET or XTHL; the
\* pair holds every two edge bytes; SP is low (0, 1, 2), on the program itself
\* (0x0102 .. 0x0104), in free memory (0x0300) or at the top (0xfffe, 0xffff).
StackSp == {0, 1, 2, 258, 259, 260, 768, 65534, 65535}

PushStarts ==
    \E rp \in 0 .. 2, hi \in EdgeBytes, lo \in EdgeBytes, s \in StackSp,
       second \in {193, 209, 225, 201, 227} :
      StartAt(set_register_pair(
               [MidRun EXCEPT !.pc = 256, !.sp = s,
                              !.memory = initialize_memory(
                                  << <<256, <<197 + 16 * rp, second>> >> >>)],
               rp, hi * 256 + lo),
           MaxSteps)

PushPswStarts ==
    \E acc \in EdgeBytes \cup {241}, cb \in AllConditions, s \in StackSp,
       second \in {241, 201} :
      StartAt([MidRun EXCEPT !.pc = 256, !.sp = s, !.a = acc, !.conditions = cb,
                          !.memory = initialize_memory(
                              << <<256, <<245, second>> >> >>)],
           MaxSteps)

\* POP rp, POP PSW or RET at 0x0100, with every two edge bytes on top of the
\* stack.
PopStarts ==
    \E op \in PopOps \cup {201}, lo \in EdgeBytes, hi \in EdgeBytes,
       s \in {768, 0, 65533, 65534, 65535}, cb \in TwoConditions :
      StartAt([MidRun EXCEPT !.pc = 256, !.sp = s, !.conditions = cb,
                          !.memory = initialize_memory(
                              << <<256, <<op>> >>, <<s, <<lo, hi>> >> >>)],
           MaxSteps)

\* CALL a16 at p, with RET at a16 = 0x0200; the stack in free memory, on the
\* CALL's own operand bytes (p+2, p+3, p+4) or at the bottom of the memory.
CallStarts ==
    \E p \in {256, 65532, 65533}, s \in {0, 1, 2, 768, 258, 259, 260, 65534, 65535} :
      StartAt([MidRun EXCEPT !.pc = p, !.sp = s,
                          !.memory = initialize_memory(
                              << <<p, <<205, 0, 2>> >>, <<512, <<201>> >> >>)],
           MaxSteps)

\* Jccc, Cccc and Rccc at p with operand 0x0200, under every value of the
\* flags; RET at 0x0200; the word 0x0280 on the stack.
CondStarts ==
    \E op \in JcccOps \cup CcccOps \cup RcccOps, cb \in AllConditions,
       p \in {256, 65533}, s \in {768, 259} :
      StartAt([MidRun EXCEPT !.pc = p, !.sp = s, !.conditions = cb,
                          !.memory = initialize_memory(
                              << <<768, <<2, 128>> >>, <<p, <<op, 0, 2>> >>,
                                 <<512, <<201>> >> >>)],
           MaxSteps)

\* XCHG; XCHG and XTHL; XTHL at 0x0100, HL holding every two edge bytes, with
\* three different words on top of the stack, in free memory (0x0300) and at
\* the highest addresses (0xfffd, 0xfffe).
ExchangeStarts ==
    \E op \in {227, 235}, hi \in EdgeBytes, lo \in EdgeBytes,
       w \in {<<170, 187>>, <<0, 255>>, <<18, 18>>}, s \in {768, 65533, 65534} :
      StartAt([MidRun EXCEPT !.pc = 256, !.sp = s, !.h = hi, !.l = lo,
                          !.memory = initialize_memory(
                              << <<256, <<op, op>> >>, <<s, w>> >>)],
           MaxSteps)

\* A store to the address x and a load from it, at 0x0100: STA; LDA, STAX B;
\* LDAX B, STAX D; LDAX D, MOV M,B; MOV A,M and MVI M,0x5a; MOV C,M.  BC, DE
\* and HL hold x, the byte at x is 0x99 before the store, and x is the first
\* address, one in the middle, and the two highest 16-bit addresses.
StoreLoadStarts ==
    \E x \in {0, 528, 65534, 65535} :
    \E prog \in {<<50, x % 256, Shr(x, 8), 58, x % 256, Shr(x, 8)>>,
                 <<2, 10>>, <<18, 26>>, <<112, 126>>, <<54, 90, 78>>} :
      StartAt([MidRun EXCEPT !.pc = 256,
                          !.b = Shr(x, 8), !.c = x % 256,
                          !.d = Shr(x, 8), !.e = x % 256,
                          !.h = Shr(x, 8), !.l = x % 256,
                          !.memory = initialize_memory(
                              << <<x, <<153>> >>, <<256, prog>> >>)],
           MaxSteps)

\* MOV r1,r2 for every two register codes and MVI r,0x5a for every code, at
\* 0x0100, the registers holding distinct values and HL the address of a byte
\* 0x99, in the middle of the memory (0x0210) or at its end (0xfffe).
MovStarts ==
    \E op \in ((64 .. 127) \ {118}) \cup {6 + 8 * r : r \in 0 .. 7},
       hl \in {528, 65534}, cb \in TwoConditions :
      StartAt([MidRun EXCEPT !.pc = 256, !.conditions = cb,
                          !.h = Shr(hl, 8), !.l = hl % 256,
                          !.memory = initialize_memory(
                              << <<hl, <<153>> >>, <<256, <<op, 90>> >> >>)],
           1)

\* INX rp and DCX rp at 0x0100 for every pair (BC, DE, HL, SP), the pair
\* holding a value at an edge of the 16-bit range or of a byte, under every
\* value of the flags.
PairStarts ==
    \E rp \in 0 .. 3, op \in {3, 11}, cb \in AllConditions,
       v \in {0, 1, 255, 256, 32767, 32768, 65534, 65535} :
      StartAt(set_register_pair(
               [MidRun EXCEPT !.pc = 256, !.conditions = cb,
                              !.memory = initialize_memory(
                                  << <<256, <<op + 16 * rp>> >> >>)],
               rp, v),
           1)

\* The processor as make_processor and initialize_memory leave it, for an image
\* that is a single instruction.
Constructed ==
    \E op \in 0 .. 255 :
      StartAt([make_processor EXCEPT !.memory = initialize_memory(
                                      << <<0, <<op, 5, 2>> >> >>)],
           MaxSteps)

Init ==
    \/ Constructed \/ CoverStarts \/ PushStarts \/ PushPswStarts
    \/ PopStarts \/ CallStarts \/ CondStarts \/ ExchangeStarts
    \/ StoreLoadStarts \/ MovStarts \/ PairStarts

Spec == Init /\ [][Next]_vars

---------------------------------------------------------------------------
(* Runs of the arithmetic instructions: the accumulator takes every 8-bit  *)
(* value, and the run is the instructions of the start alone.              *)

\* Every 8-bit value.
Bytes == 0 .. 255

\* Operand values around the edges of the range and of the nibbles:
\* 0x00 0x01 0x0f 0x10 0x7f 0x80 0xfe 0xff
SampleBytes == {0, 1, 15, 16, 127, 128, 254, 255}

\* The flags with CY = cy and the others clear.
CarryOnly(cy) == [make_processor.conditions EXCEPT !.carry = cy]

\* ADI d8 at 0x0100, for every A and every d8, CY clear.
AdiStarts ==
    \E x \in Bytes, y \in Bytes :
      StartAt([MidRun EXCEPT !.pc = 256, !.a = x,
                          !.memory = initialize_memory(<< <<256, <<198, y>> >> >>)],
           1)

\* ADD r at 0x0100 for every register code r (M is the byte at HL = 0x0210),
\* every A and the sample values of the register, CY clear and set.
AddStarts ==
    \E r \in 0 .. 7, x \in Bytes, y \in SampleBytes, cy \in BOOLEAN :
      StartAt(set_register(
               [MidRun EXCEPT !.pc = 256, !.a = x, !.conditions = CarryOnly(cy),
                              !.memory = initialize_memory(
                                  << <<256, <<128 + r>> >> >>)],
               r, y),
           1)

InitAdd == Constructed \/ CoverStarts \/ AdiStarts \/ AddStarts

SpecAdd == InitAdd /\ [][Next]_vars

\* SUB r and CMP r at 0x0100 for every register code r, every A and the sample
\* values of the register, CY clear and set.
SubCmpStarts ==
    \E op \in {144, 184}, r \in 0 .. 7, x \in Bytes, y \in SampleBytes,
       cy \in BOOLEAN :
      StartAt(set_register(
                  [MidRun EXCEPT !.pc = 256, !.a = x, !.conditions = CarryOnly(cy),
                                 !.memory = initialize_memory(
                                     << <<256, <<op + r>> >> >>)],
                  r, y),
              1)

\* INR r; DCR r at 0x0100 for every register code r and every value of the
\* register, CY clear and set.
IncDecStarts ==
    \E r \in 0 .. 7, v \in Bytes, cy \in BOOLEAN :
      StartAt(set_register(
                  [MidRun EXCEPT !.pc = 256, !.conditions = CarryOnly(cy),
                                 !.memory = initialize_memory(
                                     << <<256, <<4 + 8 * r, 5 + 8 * r>> >> >>)],
                  r, v),
              2)

\* INR M at 0x0100 with HL on the program itself: on the INR M, and on the byte
\* after it, which is INR M (0x34) until the first instruction makes it DCR M (0x35).
IncDecSelfStarts ==
    \E hl \in {256, 257}, cy \in BOOLEAN :
      StartAt([MidRun EXCEPT !.pc = 256, !.h = 1, !.l = hl - 256,
                             !.conditions = CarryOnly(cy),
                             !.memory = initialize_memory(
                                 << <<256, <<52, IF hl = 256 THEN 53 ELSE 52>> >> >>)],
              2)

\* RLC, RRC, RAL and RAR at 0x0100 for every A, CY clear and set, the other
\* flags all clear and all set.
RotateStarts ==
    \E op \in {7, 15, 23, 31}, x \in Bytes, cy \in BOOLEAN, rest \in BOOLEAN :
      StartAt([MidRun EXCEPT !.pc = 256, !.a = x,
                             !.conditions = [carry |-> cy, aux_carry |-> rest,
                                             sign |-> rest, zero |-> rest,
                                             parity |-> rest],
                             !.memory = initialize_memory(<< <<256, <<op>> >> >>)],
              1)

\* POP PSW at 0x0100, then ANA r, XRA r, ORA r, ANI, XRI or ORI: the POP loads
\* A (a sample value, 0x55 or 0xaa) and the flag byte 0x00, 0x10 (AC alone) or
\* 0xd5 (all five flags); the operand, in the register and in the byte after
\* the opcode, is 0x00, 0x0f, 0xaa or 0xff.
LogicStarts ==
    \E op \in (160 .. 183) \cup {230, 238, 246}, x \in SampleBytes \cup {85, 170},
       y \in {0, 15, 170, 255}, f \in {0, 16, 213} :
      StartAt(set_register(
                  [MidRun EXCEPT !.pc = 256,
                                 !.memory = initialize_memory(
                                     << <<256, <<241, op, y>> >>,
                                        <<768, <<f, x>> >> >>)],
                  op % 8, y),
              2)

\* SBB r, SUI and SBI at 0x0100 for every register code r, every A and the
\* sample values of the operand, in the register and in the byte after the
\* opcode, CY clear and set.
BorrowStarts ==
    \E op \in (152 .. 159) \cup {214, 222}, x \in Bytes, y \in SampleBytes,
       cy \in BOOLEAN :
      StartAt(set_register(
                  [MidRun EXCEPT !.pc = 256, !.a = x, !.conditions = CarryOnly(cy),
                                 !.memory = initialize_memory(
                                     << <<256, <<op, y>> >> >>)],
                  op % 8, y),
              1)

InitAlu ==
    \/ Constructed \/ CoverStarts \/ SubCmpStarts \/ IncDecStarts
    \/ IncDecSelfStarts \/ RotateStarts \/ LogicStarts \/ BorrowStarts

SpecAlu == InitAlu /\ [][Next]_vars

---------------------------------------------------------------------------
(* Runs of the memcpy program of tests::test_mem_cpy, to their end.        *)

\* The most bytes a memcpy program of the model copies.
MaxCopy == 3

\* The memcpy program: LXI B,src; LXI D,dst; MVI r,n; then at 0x0008 the loop
\* LDAX B; STAX D; INX B; INX D; DCR r; JNZ 0x0008; and HLT at 0x0010.
MemcpyProgram(src, dst, r, n) ==
    <<1, src % 256, Shr(src, 8), 17, dst % 256, Shr(dst, 8), 6 + 8 * r, n,
      10, 18, 3, 19, 5 + 8 * r, 194, 8, 0, 118>>

\* The memcpy program run from the zero-initialized processor: it copies n
\* bytes, each 0x00 or 0xff, to a destination that holds 0x99, counting in H
\* or in L; the source and the destination lie within a page (0x0020, 0x0030)
\* or across the end of one (0x20fe, 0x30ff).  The run is as long as n turns of
\* the loop take: 3 instructions before the loop, 6 a turn, and HLT.
MemcpyStarts ==
    \E n \in 1 .. MaxCopy, r \in {4, 5}, at \in {<<32, 48>>, <<8446, 12543>>} :
    \E bytes \in [1 .. n -> {0, 255}] :
      StartAt([make_processor EXCEPT !.memory = initialize_memory(
                  << <<0, MemcpyProgram(at[1], at[2], r, n)>>,
                     <<at[2], [i \in 1 .. n |-> 153]>>,
                     <<at[1], bytes>> >>)],
           3 + 6 * n + 1)

\* The loop of run_program runs an instruction whenever HALT is clear.
SpecMemcpy ==
    /\ (Constructed \/ CoverStarts \/ MemcpyStarts)
    /\ [][Next]_vars
    /\ WF_vars(Next)

---------------------------------------------------------------------------
(* Vocabulary of the properties *)

\* The processor before the last instruction, and before the one before it.
Last == trace[Len(trace)]

First == trace[1]

\* The opcode the processor s is about to fetch.
OpAt(s) == MemRead(s, s.pc)

\* The 16-bit operand of the three-byte instruction the processor s is about to fetch.
OperandAt(s) == MemRead(s, s.pc + 1) + 256 * MemRead(s, s.pc + 2)

\* The last instruction was `op`, and it completed.
Did(op) == ~panicked /\ trace # << >> /\ InBounds(Last.pc) /\ OpAt(Last) = op

\* The last instruction the run began was `op`, completed or not; its operand
\* bytes lie below the end of the 16-bit address space.
Began(op) == trace # << >> /\ Last.pc + 2 < MemLen /\ OpAt(Last) = op

\* The last two instructions were `op1` then `op2`, and both completed.
DidPair(op1, op2) ==
    /\ ~panicked /\ Len(trace) = 2
    /\ InBounds(First.pc) /\ OpAt(First) = op1
    /\ InBounds(Last.pc) /\ OpAt(Last) = op2

\* The high and the low register of pair rp (0 BC, 1 DE, 2 HL) in processor s.
HighOf(s, rp) == CASE rp = 0 -> s.b [] rp = 1 -> s.d [] OTHER -> s.h

LowOf(s, rp) == CASE rp = 0 -> s.c [] rp = 1 -> s.e [] OTHER -> s.l

---------------------------------------------------------------------------
(* C1: for every pair rp of BC, DE, HL and SP >= 2, PUSH rp immediately    *)
(* followed by POP rp leaves the pair and SP as they were before the PUSH. *)
C1_PushPopRoundTrip ==
    \A rp \in 0 .. 2 :
        (DidPair(197 + 16 * rp, 193 + 16 * rp) /\ First.sp >= 2)
        => /\ HighOf(Self, rp) = HighOf(First, rp)
           /\ LowOf(Self, rp) = LowOf(First, rp)
           /\ sp = First.sp

\* PUSH B; POP B has run with B = 0x80, C = 0x01 and SP = 0x0300.
C1_Witness ==
    /\ DidPair(197, 193) /\ First.sp = 768
    /\ First.b = 128 /\ First.c = 1

(* C2: POP rp (0xc1, 0xd1, 0xe1) with SP = s <= 0xfffd loads the low       *)
(* register of the pair from MEM[s] and the high one from MEM[s+1], sets   *)
(* SP to s+2 and leaves A and the flags unchanged.                         *)
C2_PopLoadsPair ==
    \A rp \in 0 .. 2 :
        (Did(193 + 16 * rp) /\ Last.sp <= 65533)
        => /\ LowOf(Self, rp) = MemRead(Last, Last.sp)
           /\ HighOf(Self, rp) = MemRead(Last, Last.sp + 1)
           /\ sp = Last.sp + 2
           /\ a = Last.a
           /\ conditions = Last.conditions

(* C3: PUSH rp (0xc5, 0xd5, 0xe5) with SP = s >= 2 stores the high byte of *)
(* the pair at MEM[s-1] and the low byte at MEM[s-2], sets SP to s-2 and   *)
(* changes nothing else.                                                   *)
C3_PushStoresHighThenLow ==
    \A rp \in 0 .. 2 :
        (Did(197 + 16 * rp) /\ Last.sp >= 2)
        => Self = MemWrite(
                      MemWrite([Last EXCEPT !.pc = Last.pc + 1,
                                            !.sp = Last.sp - 2],
                               Last.sp - 1, HighOf(Last, rp)),
                      Last.sp - 2, LowOf(Last, rp))

(* C4: for every A, every value of the five flags and SP >= 2, PUSH PSW    *)
(* immediately followed by POP PSW leaves A, the flags and SP as they were *)
(* before the PUSH.                                                        *)
C4_PushPopPswRoundTrip ==
    (DidPair(245, 241) /\ First.sp >= 2)
    => /\ a = First.a
       /\ conditions = First.conditions
       /\ sp = First.sp

\* PUSH PSW; POP PSW has run with A = 0x80, AC and Z set, the others clear.
C4_Witness ==
    /\ DidPair(245, 241) /\ First.sp = 768 /\ First.a = 128
    /\ First.conditions = [carry |-> FALSE, aux_carry |-> TRUE, sign |-> FALSE,
                           zero |-> TRUE, parity |-> FALSE]

(* C5: the flags byte PUSH PSW writes (at SP-2) is S Z 0 AC 0 P 1 CY from  *)
(* bit 7 down to bit 0: bit 1 is always 1, bits 3 and 5 are always 0.      *)
C5_PswByteLayout ==
    (Did(245) /\ Last.sp >= 2)
    => LET f == MemRead(Self, Last.sp - 2)
           bit(n) == Bit(f, n) = 1
       IN /\ bit(7) = Last.conditions.sign
          /\ bit(6) = Last.conditions.zero
          /\ bit(4) = Last.conditions.aux_carry
          /\ bit(2) = Last.conditions.parity
          /\ bit(0) = Last.conditions.carry
          /\ bit(1) /\ ~bit(3) /\ ~bit(5)

(* C6: CALL a16 (0xcd) at address p with SP = s >= 2 pushes the return     *)
(* address p+3, sets SP to s-2 and PC to a16; a RET right after it sets PC *)
(* to p+3 and SP back to s.                                                *)
C6_CallThenRet ==
    /\ (Did(205) /\ Last.sp >= 2)
       => /\ pc = OperandAt(Last)
          /\ sp = Last.sp - 2
          /\ {MemRead(Self, Last.sp - 1), MemRead(Self, Last.sp - 2)}
               = {(Last.pc + 3) % 256, Shr(Last.pc + 3, 8)}
    /\ (DidPair(205, 201) /\ First.sp >= 2)
       => /\ pc = First.pc + 3
          /\ sp = First.sp

\* The condition that opcode bits 5..3 name, read in the flags of processor s.
C7_Condition(s, opcode) ==
    LET ccc == Shr(opcode, 3) % 8
    IN CASE ccc = 0 -> s.conditions.zero = FALSE
         [] ccc = 1 -> s.conditions.zero = TRUE
         [] ccc = 2 -> s.conditions.carry = FALSE
         [] ccc = 3 -> s.conditions.carry = TRUE
         [] ccc = 4 -> s.conditions.parity = FALSE
         [] ccc = 5 -> s.conditions.parity = TRUE
         [] ccc = 6 -> s.conditions.sign = FALSE
         [] OTHER -> s.conditions.sign = TRUE

(* C7: a conditional jump or call at address p transfers to its operand    *)
(* a16 exactly when the condition of opcode bits 5..3 holds (NZ, Z, NC, C, *)
(* PO, PE, P, M); otherwise PC becomes p+3 and nothing else changes.       *)
C7_ConditionalTransfer ==
    \A op \in JcccOps \cup CcccOps :
        Did(op)
        => IF C7_Condition(Last, op)
           THEN pc = OperandAt(Last)
           ELSE Self = [Last EXCEPT !.pc = (Last.pc + 3) % U16]

\* The byte v has an even number of 1 bits.
C8_EvenOnes(v) == Cardinality({n \in 0 .. 7 : Bit(v, n) = 1}) % 2 = 0

\* A and the flags S, Z, P, CY are those of the 8-bit sum x + y.
C8_SumFlags(x, y) ==
    /\ a = (x + y) % 256
    /\ conditions.carry = (x + y > 255)
    /\ conditions.zero = (a = 0)
    /\ conditions.sign = (a >= 128)
    /\ conditions.parity = C8_EvenOnes(a)

(* C8: for all a, b in 0..255, ADI b from A = a with CY = 0 leaves         *)
(* A = (a+b) mod 256, CY = 1 exactly when a+b > 255, Z = 1 exactly when    *)
(* the new A is 0, S = bit 7 of the new A and P = 1 exactly when the new A *)
(* has an even number of 1 bits; the same holds for ADD r with the         *)
(* register holding b.                                                     *)
C8_AddSetsSumAndFlags ==
    /\ (Did(198) /\ ~Last.conditions.carry)
       => C8_SumFlags(Last.a, MemRead(Last, Last.pc + 1))
    /\ \A r \in 0 .. 7 :
          Did(128 + r) => C8_SumFlags(Last.a, get_register(Last, r))

\* ADI 0x80 has run from A = 0x80: the sum 0x100 leaves A = 0 with CY and Z set.
C8_Witness ==
    /\ Did(198) /\ ~Last.conditions.carry
    /\ Last.a = 128 /\ MemRead(Last, Last.pc + 1) = 128
    /\ a = 0 /\ conditions.carry /\ conditions.zero

(* C9: for every A, every register code r (M included) and every value of *)
(* that register, CMP r leaves A, every register and every memory byte     *)
(* unchanged, and leaves S, Z, P and CY as SUB r leaves them from the same *)
(* state.                                                                  *)
C9_CmpFlagsAsSub ==
    \A r \in 0 .. 7 :
        Did(184 + r)
        => LET subbed == sub(get_byte(Last).st, 144 + r)
           IN Self = [Last EXCEPT
                         !.pc = Last.pc + 1,
                         !.conditions =
                             [@ EXCEPT !.sign = subbed.conditions.sign,
                                       !.zero = subbed.conditions.zero,
                                       !.parity = subbed.conditions.parity,
                                       !.carry = subbed.conditions.carry]]

\* CMP M has run with A = 0x01 and the byte at HL = 0x80: A is still 0x01 and
\* the borrow set CY.
C9_Witness ==
    /\ Did(190) /\ Last.a = 1 /\ get_register(Last, 6) = 128
    /\ a = 1 /\ conditions.carry /\ conditions.sign

(* C10: for every register code r and every value v of that register, 0xff *)
(* included, INR r immediately followed by DCR r leaves the register equal *)
(* to v and CY as it was before the two instructions.                      *)
C10_InrDcrRoundTrip ==
    \A r \in 0 .. 7 :
        DidPair(4 + 8 * r, 5 + 8 * r)
        => /\ get_register(Self, r) = get_register(First, r)
           /\ conditions.carry = First.conditions.carry

\* INR M; DCR M has run on a byte that held 0xff, with CY set.
C10_Witness ==
    /\ DidPair(52, 53) /\ get_register(First, 6) = 255
    /\ First.conditions.carry /\ get_register(Last, 6) = 0

(* C11: XCHG twice leaves D, E, H, L unchanged; XTHL twice with SP = s <=   *)
(* 0xfffd leaves H, L, MEM[s], MEM[s+1] and SP unchanged; a single XTHL     *)
(* leaves SP unchanged and exchanges HL with the word on top of the stack,  *)
(* whose low byte is MEM[s] and whose high byte is MEM[s+1].                *)
C11_ExchangesAreInvolutions ==
    /\ DidPair(235, 235)
       => /\ d = First.d /\ e = First.e
          /\ h = First.h /\ l = First.l
    /\ (DidPair(227, 227) /\ First.sp <= 65533)
       => /\ h = First.h /\ l = First.l
          /\ MemRead(Self, First.sp) = MemRead(First, First.sp)
          /\ MemRead(Self, First.sp + 1) = MemRead(First, First.sp + 1)
          /\ sp = First.sp
    /\ (Did(227) /\ Last.sp <= 65533)
       => /\ sp = Last.sp
          /\ l = MemRead(Last, Last.sp)
          /\ h = MemRead(Last, Last.sp + 1)
          /\ MemRead(Self, Last.sp) = Last.l
          /\ MemRead(Self, Last.sp + 1) = Last.h

(* C12: HALT is the only terminal state of a run.  The run never stops     *)
(* with HALT clear (a panic is the one other way the loop of run_program   *)
(* ends); HALT is set only by opcode 0x76, which at address p leaves       *)
(* PC = p+1 and changes nothing else; once HALT is set the state no longer *)
(* changes.                                                                *)
C12_HaltIsOnlyTerminal ==
    /\ [](panicked => halt)
    /\ [][/\ (~halt /\ halt')
             => /\ InBounds(pc) /\ Opcode = 118
                /\ Self' = [Self EXCEPT !.pc = pc + 1, !.halt = TRUE]
          /\ halt => (halt' /\ Self' = Self)]_vars

(* C13: memory access is total over 0x0000 .. 0xffff.  No store (STA,      *)
(* STAX, MOV M,r, MVI M) and no load (LDA, LDAX, MOV r,M) stops the        *)
(* interpreter, whatever the address; after the store the byte at the      *)
(* address is the stored byte, and the load returns the byte at the        *)
(* address.                                                                *)
C13_MemoryAccessIsTotal ==
    LET hl(s) == get_register_pair_value(s, 2)
    IN /\ Began(50)
          => ~panicked /\ MemRead(Self, OperandAt(Last)) = Last.a
       /\ Began(58)
          => ~panicked /\ a = MemRead(Last, OperandAt(Last))
       /\ \A rp \in 0 .. 1 :
            /\ Began(2 + 16 * rp)
               => /\ ~panicked
                  /\ MemRead(Self, get_register_pair_value(Last, rp)) = Last.a
            /\ Began(10 + 16 * rp)
               => /\ ~panicked
                  /\ a = MemRead(Last, get_register_pair_value(Last, rp))
       /\ \A r \in (0 .. 7) \ {6} :
            /\ Began(112 + r)
               => ~panicked /\ MemRead(Self, hl(Last)) = get_register(Last, r)
            /\ Began(70 + 8 * r)
               => ~panicked /\ get_register(Self, r) = MemRead(Last, hl(Last))
       /\ Began(54)
          => ~panicked /\ MemRead(Self, hl(Last)) = MemRead(Last, Last.pc + 1)

(* C14: stack operations wrap SP modulo 65 536 and never stop the          *)
(* interpreter.  PUSH rp, PUSH PSW and CALL with SP = 0x0000 or 0x0001     *)
(* complete, leave SP = (SP - 2) mod 65 536 and store their two bytes at   *)
(* the wrapped addresses; POP and RET with SP = 0xfffe or 0xffff complete  *)
(* and leave SP = (SP + 2) mod 65 536.                                     *)
C14_StackWrapsSp ==
    LET at(k) == MemRead(Self, (Last.sp - k) % U16)
    IN /\ \A rp \in 0 .. 2 :
            (Began(197 + 16 * rp) /\ Last.sp \in {0, 1})
            => /\ ~panicked /\ sp = (Last.sp - 2) % U16
               /\ {at(1), at(2)} = {HighOf(Last, rp), LowOf(Last, rp)}
       /\ (Began(245) /\ Last.sp \in {0, 1})
          => /\ ~panicked /\ sp = (Last.sp - 2) % U16
             /\ at(1) = Last.a
       /\ (Began(205) /\ Last.sp \in {0, 1})
          => /\ ~panicked /\ sp = (Last.sp - 2) % U16
             /\ {at(1), at(2)} = {(Last.pc + 3) % 256, Shr(Last.pc + 3, 8)}
       /\ \A op \in PopOps \cup {201} :
            (Began(op) /\ Last.sp \in {65534, 65535})
            => ~panicked /\ sp = (Last.sp + 2) % U16

(* C15: fetch wraps PC modulo 65 536 and never stops the interpreter.  An  *)
(* instruction whose opcode is fetched at 0xffff completes; the immediate  *)
(* byte of MVI r at 0xfffe is MEM[0xffff] and leaves PC = 0x0000; the      *)
(* immediate word of LXI, JMP and CALL at 0xfffd or 0xfffe is read across  *)
(* 0xffff, its bytes at p+1 and p+2 modulo 65 536.                         *)
C15_FetchWrapsPc ==
    LET began(op) == trace # << >> /\ OpAt(Last) = op
        word == MemRead(Last, (Last.pc + 1) % U16)
                  + 256 * MemRead(Last, (Last.pc + 2) % U16)
    IN /\ (trace # << >> /\ Last.pc = 65535) => ~panicked
       /\ \A r \in (0 .. 7) \ {6} :
            (began(6 + 8 * r) /\ Last.pc = 65534)
            => /\ ~panicked /\ pc = 0
               /\ get_register(Self, r) = MemRead(Last, 65535)
       /\ \A rp \in 0 .. 3 :
            (began(1 + 16 * rp) /\ Last.pc \in {65533, 65534})
            => /\ ~panicked /\ pc = (Last.pc + 3) % U16
               /\ get_register_pair_value(Self, rp) = word
       /\ \A op \in {195, 205} :
            (began(op) /\ Last.pc \in {65533, 65534})
            => ~panicked /\ pc = word

(* C16: an opcode byte with no handler (0x08 0x10 0x18 0x20 0x28 0x30 0x38 *)
(* 0xcb 0xd9 0xdd 0xed 0xfd), at every address p, completes, leaves        *)
(* PC = p+1 and changes no register, flag, SP, INTE, HALT or memory byte,  *)
(* so that the run goes on with the instruction at p+1.                    *)
C16_UnhandledOpcodeIsSkipped ==
    \A op \in {8, 16, 24, 32, 40, 48, 56, 203, 217, 221, 237, 253} :
        (trace # << >> /\ InBounds(Last.pc) /\ OpAt(Last) = op)
        => /\ ~panicked
           /\ Self = [Last EXCEPT !.pc = (Last.pc + 1) % U16]

\* The memory holds a memcpy program, which copies n >= 1 bytes from src to
\* dst counting in register r (H or L); source, destination and program are
\* apart.
C17_Loaded(src, dst, r, n) ==
    /\ n >= 1 /\ r \in {4, 5}
    /\ \A i \in 1 .. 17 : MemRead(Self, i - 1) = MemcpyProgram(src, dst, r, n)[i]
    /\ src >= 17 /\ dst >= 17 /\ (src + n <= dst \/ dst + n <= src)

\* The run is at its start, the processor zero-initialized, with a memcpy
\* program in memory.
C17_Started ==
    /\ trace = << >>
    /\ Self = [make_processor EXCEPT !.memory = memory]
    /\ C17_Loaded(MemRead(Self, 1) + 256 * MemRead(Self, 2),
                  MemRead(Self, 4) + 256 * MemRead(Self, 5),
                  Shr(MemRead(Self, 6), 3), MemRead(Self, 7))

\* The memcpy program has run to its HLT: the n bytes at dst are those at src,
\* BC and DE have advanced n times, the counter is 0 and Z = 1, P = 1, CY = 0,
\* S = 0.
C17_Copied ==
    LET src == MemRead(Self, 1) + 256 * MemRead(Self, 2)
        dst == MemRead(Self, 4) + 256 * MemRead(Self, 5)
        r == Shr(MemRead(Self, 6), 3)
        n == MemRead(Self, 7)
    IN /\ C17_Loaded(src, dst, r, n)
       /\ halt /\ pc = 17
       /\ \A i \in 0 .. n - 1 : MemRead(Self, dst + i) = MemRead(Self, src + i)
       /\ get_register_pair_value(Self, 0) = src + n
       /\ get_register_pair_value(Self, 1) = dst + n
       /\ get_register(Self, r) = 0
       /\ conditions.zero /\ conditions.parity
       /\ ~conditions.carry /\ ~conditions.sign

C18_Value(s, code) ==
    CASE code = 0 -> s.b [] code = 1 -> s.c [] code = 2 -> s.d
      [] code = 3 -> s.e [] code = 4 -> s.h [] code = 5 -> s.l
      [] code = 6 -> MemRead(s, s.h * 256 + s.l)
      [] code = 7 -> s.a

C18_Written(s, code, v) ==
    CASE code = 0 -> [s EXCEPT !.b = v] [] code = 1 -> [s EXCEPT !.c = v]
      [] code = 2 -> [s EXCEPT !.d = v] [] code = 3 -> [s EXCEPT !.e = v]
      [] code = 4 -> [s EXCEPT !.h = v] [] code = 5 -> [s EXCEPT !.l = v]
      [] code = 6 -> MemWrite(s, s.h * 256 + s.l, v)
      [] code = 7 -> [s EXCEPT !.a = v]

(* C18: register code 6 is the memory byte at HL in every instruction that *)
(* takes a 3-bit register code, and the codes 0..5 and 7 are B, C, D, E,   *)
(* H, L and A.  MOV r1,r2 (0x40 | r1 << 3 | r2) copies what r2 names into  *)
(* what r1 names, and MVI r,d8 (0x06 | r << 3) writes d8 to what r names;  *)
(* nothing else changes but PC: no other register, memory byte or flag.    *)
C18_RegisterCodes ==
    \A r1 \in 0 .. 7 :
        /\ \A r2 \in 0 .. 7 :
              (64 + 8 * r1 + r2 # 118 /\ Did(64 + 8 * r1 + r2))
              => Self = C18_Written([Last EXCEPT !.pc = Last.pc + 1], r1,
                                    C18_Value(Last, r2))
        /\ Did(6 + 8 * r1)
           => Self = C18_Written([Last EXCEPT !.pc = Last.pc + 2], r1,
                                 MemRead(Last, Last.pc + 1))

\* MOV M,B has run with B = 0x12 and HL = 0x0210: the byte there was 0x99 and
\* is 0x12.
C18_Witness ==
    /\ Did(112) /\ Last.b = 18 /\ Last.h = 2 /\ Last.l = 16
    /\ MemRead(Last, 528) = 153 /\ MemRead(Self, 528) = 18

(* C19: INX rp (0x03 0x13 0x23 0x33) and DCX rp (0x0b 0x1b 0x2b 0x3b)      *)
(* update no flag: S, Z, AC, P and CY are after the instruction what they  *)
(* were before it, for every pair and every value of the pair.             *)
C19_InxDcxKeepFlags ==
    \A rp \in 0 .. 3 :
        (Did(3 + 16 * rp) \/ Did(11 + 16 * rp))
        => conditions = Last.conditions

(* C20: INX rp adds 1 and DCX rp subtracts 1, modulo 65 536, to the pair   *)
(* that opcode bits 5..4 select (0 BC, 1 DE, 2 HL, 3 SP), the wraps        *)
(* 0xffff -> 0x0000 and 0x0000 -> 0xffff included, and leave the three     *)
(* other pairs and A unchanged.                                            *)
C20_InxDcxSelectedPair ==
    \A rp \in 0 .. 3 :
        \A step \in {<<3, 1>>, <<11, -1>>} :
            Began(step[1] + 16 * rp)
            => /\ ~panicked
               /\ get_register_pair_value(Self, rp)
                    = (get_register_pair_value(Last, rp) + step[2]) % U16
               /\ \A other \in (0 .. 3) \ {rp} :
                     get_register_pair_value(Self, other)
                       = get_register_pair_value(Last, other)
               /\ a = Last.a

\* Register code r holds v, Z, S and P are those of the byte v, and CY is what
\* it was before the last instruction.
C21_Result(r, v) ==
    /\ get_register(Self, r) = v
    /\ conditions.zero = (v = 0)
    /\ conditions.sign = (Bit(v, 7) = 1)
    /\ conditions.parity = C8_EvenOnes(v)
    /\ conditions.carry = Last.conditions.carry

(* C21: after INR r or DCR r, for every register code r (M included) and   *)
(* every prior value v, the register holds (v+1) mod 256 resp. (v-1) mod   *)
(* 256, Z is set exactly when that result is 0, S is its bit 7, P is set   *)
(* exactly when it has an even number of 1 bits, and CY is unchanged; INR  *)
(* of 0xff (0x00, Z = 1, S = 0) and DCR of 0x00 (0xff, Z = 0, S = 1)       *)
(* included.                                                               *)
C21_IncDecSetsZsp ==
    \A r \in 0 .. 7 :
        /\ Did(4 + 8 * r) => C21_Result(r, (get_register(Last, r) + 1) % 256)
        /\ Did(5 + 8 * r) => C21_Result(r, (get_register(Last, r) + 255) % 256)

(* C22: for every value of A and of CY, RLC (0x07) sets A to               *)
(* (A<<1)|(A>>7) and CY to old bit 7; RRC (0x0f) sets A to (A>>1)|(A<<7)   *)
(* and CY to old bit 0; RAL (0x17) sets A to (A<<1)|old CY and CY to old   *)
(* bit 7; RAR (0x1f) sets A to (A>>1)|(old CY<<7) and CY to old bit 0; all *)
(* results are modulo 256 and S, Z, P and AC are unchanged.                *)
C22_RotatesAsSpecified ==
    LET old == Last.a
        cy == IF Last.conditions.carry THEN 1 ELSE 0
        left == (old * 2) % 256
        right == old \div 2
        Is(acc, carry) ==
            /\ a = acc
            /\ conditions = [Last.conditions EXCEPT !.carry = (carry = 1)]
    IN /\ Did(7) => Is(left + Bit(old, 7), Bit(old, 7))
       /\ Did(15) => Is(right + 128 * Bit(old, 0), Bit(old, 0))
       /\ Did(23) => Is(left + cy, Bit(old, 7))
       /\ Did(31) => Is(right + 128 * cy, Bit(old, 0))

\* A is the bitwise combination of the bytes x and y that `kind` names (0 AND,
\* 1 XOR, 2 OR), CY and AC are clear, and Z, S and P are those of A.
C23_Combined(kind, x, y) ==
    /\ \A n \in 0 .. 7 :
          Bit(a, n) = CASE kind = 0 -> Bit(x, n) * Bit(y, n)
                        [] kind = 1 -> (Bit(x, n) + Bit(y, n)) % 2
                        [] OTHER -> IF Bit(x, n) + Bit(y, n) > 0 THEN 1 ELSE 0
    /\ ~conditions.carry /\ ~conditions.aux_carry
    /\ conditions.zero = (a = 0)
    /\ conditions.sign = (Bit(a, 7) = 1)
    /\ conditions.parity = C8_EvenOnes(a)

(* C23: after every logical instruction (ANA r, XRA r, ORA r, ANI, XRI,    *)
(* ORI) from any reachable state, the states in which a preceding POP PSW  *)
(* set AC included, A holds the bitwise AND/XOR/OR of the old A and the    *)
(* operand, CY = 0 and AC = 0, and Z, S, P reflect the new A.              *)
C23_LogicalClearsCarries ==
    /\ \A kind \in 0 .. 2, r \in 0 .. 7 :
          Did(160 + 8 * kind + r)
          => C23_Combined(kind, Last.a, get_register(Last, r))
    /\ \A kind \in 0 .. 2 :
          Did(230 + 8 * kind)
          => C23_Combined(kind, Last.a, MemRead(Last, Last.pc + 1))

\* A and the flags S, Z, P, CY are those of the 8-bit difference x - y - bin.
C24_DifferenceFlags(x, y, bin) ==
    /\ a = (x - y - bin) % 256
    /\ conditions.carry = (x < y + bin)
    /\ conditions.zero = (a = 0)
    /\ conditions.sign = (Bit(a, 7) = 1)
    /\ conditions.parity = C8_EvenOnes(a)

(* C24: for all a, b in 0..255 and every borrow-in bin (0 for SUB and SUI, *)
(* the old CY for SBB and SBI), the subtract instructions leave            *)
(* A = (a - b - bin) mod 256, CY = 1 exactly when a < b + bin (b = 0xff    *)
(* with bin = 1 included), Z = 1 exactly when the new A is 0, S = bit 7 of *)
(* the new A and P = even parity of the new A, and the widened subtraction *)
(* never underflows: the instruction completes in every build.             *)
C24_SubtractWithBorrow ==
    LET bin == IF Last.conditions.carry THEN 1 ELSE 0
        d8 == MemRead(Last, Last.pc + 1)
    IN /\ \A r \in 0 .. 7 :
             /\ Began(144 + r) /\ register_in_bounds(Last, r)
                => ~panicked /\ C24_DifferenceFlags(Last.a, get_register(Last, r), 0)
             /\ Began(152 + r) /\ register_in_bounds(Last, r)
                => ~panicked /\ C24_DifferenceFlags(Last.a, get_register(Last, r), bin)
       /\ Began(214) => ~panicked /\ C24_DifferenceFlags(Last.a, d8, 0)
       /\ Began(222) => ~panicked /\ C24_DifferenceFlags(Last.a, d8, bin)

\* SBI 0xff has run from A = 0x00 with CY set: the difference 0 - 0xff - 1 leaves
\* A = 0x00 with CY and Z set.
C24_Witness ==
    /\ Did(222) /\ Last.a = 0 /\ MemRead(Last, Last.pc + 1) = 255
    /\ Last.conditions.carry
    /\ a = 0 /\ conditions.carry /\ conditions.zero

(* C25: RST n (0xc7 0xcf 0xd7 0xdf 0xe7 0xef 0xf7 0xff) at address p with  *)
(* SP = s pushes the return address p+1 on the stack, high byte at s-1 and *)
(* low byte at s-2, leaves SP = s-2 and sets PC to                         *)
(* ((opcode >> 3) & 7) * 8.                                                *)
C25_RstPushesAndJumps ==
    \A n \in 0 .. 7 :
        Did(199 + 8 * n)
        => /\ pc = 8 * n
           /\ sp = (Last.sp - 2) % U16
           /\ MemRead(Self, (Last.sp - 1) % U16) = Shr(Last.pc + 1, 8)
           /\ MemRead(Self, (Last.sp - 2) % U16) = (Last.pc + 1) % 256

(* C26: IN port (0xdb) and OUT port (0xd3) at address p take the following *)
(* byte as their port number: after either instruction PC = p+2, HALT is   *)
(* not set, and OUT changes no register, flag, SP or memory byte.          *)
C26_InOutTakeOperand ==
    /\ (Did(219) \/ Did(211)) => (pc = (Last.pc + 2) % U16 /\ ~halt)
    /\ Did(211) => Self = [Last EXCEPT !.pc = pc]

\* PUSH rp and then the instruction `op` have been run, the PUSH with SP >= 2.
C27_PushedThen(rp, op) ==
    /\ Len(trace) = 2 /\ First.sp >= 2
    /\ InBounds(First.pc) /\ OpAt(First) = 197 + 16 * rp
    /\ InBounds(Last.pc) /\ OpAt(Last) = op

(* C27: register pushes and control transfers share the stack word format: *)
(* for every rp in {BC, DE, HL} and SP >= 2, PUSH rp immediately followed  *)
(* by RET sets PC to the 16-bit value of rp, (high << 8) | low, and        *)
(* restores SP to its value before the PUSH; PUSH rp followed by XTHL puts *)
(* the old value of rp into HL.                                            *)
C27_PushFeedsRetAndXthl ==
    \A rp \in 0 .. 2 :
        /\ C27_PushedThen(rp, 201)
           => /\ ~panicked
              /\ pc = HighOf(First, rp) * 256 + LowOf(First, rp)
              /\ sp = First.sp
        /\ C27_PushedThen(rp, 227)
           => /\ ~panicked
              /\ h = HighOf(First, rp) /\ l = LowOf(First, rp)

\* PUSH D; RET has run with D = 0x80, E = 0x01 and SP = 0x0002: PC is 0x8001.
C27_Witness ==
    /\ DidPair(213, 201) /\ First.sp = 2
    /\ First.d = 128 /\ First.e = 1
    /\ pc = 32769 /\ sp = 2

\* The opcodes that may write memory: STAX B, STAX D, SHLD, STA, INR M, DCR M,
\* MVI M, MOV M,r, the four PUSH, CALL and XTHL.
C28_StoreOps ==
    {2, 18, 34, 50, 52, 53, 54, 205, 227} \cup ((112 .. 119) \ {118})
        \cup {197, 213, 229, 245}

\* The opcodes that may change SP: LXI SP, INX SP, DCX SP, SPHL, the four PUSH,
\* the four POP, CALL and RET.
C28_StackOps == {49, 51, 59, 249, 205, 201} \cup {197, 213, 229, 245} \cup PopOps

\* The last instruction begun is a conditional one of `ops` whose condition held.
C28_Taken(ops) == OpAt(Last) \in ops /\ C7_Condition(Last, OpAt(Last))

\* The addresses whose byte the last instruction changed.
C28_Written ==
    {addr \in DOMAIN memory \cup DOMAIN Last.memory :
        MemRead(Self, addr) # MemRead(Last, addr)}

(* C28: only store-type instructions write memory: in every step, unless   *)
(* the opcode is STAX, STA, SHLD, MOV M,r, MVI M, INR M, DCR M, PUSH, CALL *)
(* or a taken Cccc, or XTHL, every memory byte is unchanged, and each of   *)
(* those changes at most two bytes; SP changes only in LXI SP, INX SP,     *)
(* DCX SP, SPHL, PUSH, POP, CALL or Cccc taken and RET or Rccc taken; a    *)
(* conditional RET whose condition is false leaves SP and memory unchanged *)
(* and PC at the next opcode.                                              *)
C28_OnlyStoresWrite ==
    trace # << >>
    => /\ (OpAt(Last) \notin C28_StoreOps /\ ~C28_Taken(CcccOps))
          => C28_Written = {}
       /\ Cardinality(C28_Written) <= 2
       /\ (/\ OpAt(Last) \notin C28_StackOps
           /\ ~C28_Taken(CcccOps) /\ ~C28_Taken(RcccOps))
          => sp = Last.sp
       /\ (OpAt(Last) \in RcccOps /\ ~C28_Taken(RcccOps) /\ ~panicked)
          => /\ sp = Last.sp /\ C28_Written = {}
             /\ pc = (Last.pc + 1) % U16

\* RZ (0xc8) has run at 0x0100 with Z clear and SP = 0x0300: SP and the memory
\* are what they were, and PC is on the next opcode.
C28_Witness ==
    /\ Did(200) /\ ~Last.conditions.zero
    /\ Last.pc = 256 /\ Last.sp = 768
    /\ sp = 768 /\ memory = Last.memory /\ pc = 257

===========================================================================
